---- MODULE Spec2Model ----
(***************************************************************************)
(* A model of the job-sniping pipeline: the circuit breaker                *)
(* (src/utils/templates.ts), the discovery cycle (JobPoller and            *)
(* Orchestrator.runPollingCycle) and the claim worker (JobApplier).        *)
(* Each component has its own specification over the shared variables;     *)
(* a specification leaves the variables of the other components alone.     *)
(***************************************************************************)
EXTENDS Integers, Sequences, FiniteSets, TLC

(***************************************************************************)
(* Bounds of the model.                                                    *)
(***************************************************************************)
\* wrapped calls a breaker settles while CLOSED before the model stops issuing more
MaxCalls == 10
\* last instant (ms) of the breaker clock
MaxTime == 120000
\* granularity (ms) of the breaker clock
TickStep == 30000
\* concurrent callers of one breaker (overlapping discovery cycles)
NumCallers == 2
\* distinct item identifiers
NumItems == 2
\* claim tasks published to the 'job-applications' queue
MaxTasks == 2
\* config.worker.concurrency as configured in the model (WORKER_CONCURRENCY)
Concurrency == 2
\* runPollingCycle() invocations that can be under way at once (cron, manual trigger)
NumCycles == 2
\* page size asked of the catalog, scaled down
PageLimit == 2
\* wrapped data keys (one per saved session file)
NumKeys == 2
\* concurrent callers of loadSession()
NumReaders == 2
\* granularity (ms) of the cache clock: half the cache TTL
CacheStep == 1800000
\* last instant (ms) of the cache clock
CacheMaxTime == 7200000
\* concurrent callers of the session manager
NumProcs == 2
\* browsers that can be open at once
MaxBrowsers == 2
\* the largest retry-after value, in seconds, a 429 response carries
MaxHint == 2
\* jobs in the catalog that fetchAllJobs() pages through
MaxCatalog == 6
\* jobs put on the application queue for the worker pool
MaxQueued == 4
\* identities in config/identity_pool.json
MaxIdentities == 2
\* pages the catalog serves to one cycle
MaxPages == 2
\* catalog pages fetched successfully, over all cycles
MaxFetches == 3
\* access tokens issued
MaxGen == 2

(***************************************************************************)
(* CircuitBreaker (src/utils/circuitBreaker.ts)                            *)
(***************************************************************************)
VARIABLES
  cbName,     \* CircuitBreaker.name: which protected dependency this breaker guards
  cb,         \* state, failureCount, successCount, lastFailureTime, nextAttempt
  call,       \* per caller: the execute() it has in progress, or how its last one ended
  requests,   \* wrapped calls settled since the breaker was created or last closed
  now         \* Date.now(), in ms

cbVars == <<cbName, cb, call, requests>>

(***************************************************************************)
(* JobApplier and its 'job-applications' queue (modules/Orchestrator.ts)   *)
(***************************************************************************)
VARIABLES
  tasks,      \* the jobs of the 'job-applications' queue, in the order they were added
  slot,       \* per worker slot: where its processJob() stands, and on which task
  lock,       \* Redis keys job-sniping:lock:<id>: the instant each expires, if set
  dbStatus,   \* Job.status of each item in the database
  lockClaims, \* claim actions invoked for an item since its lock was last set
  metrics     \* applicationsSuccess and applicationsFailure

claimVars == <<tasks, slot, lock, dbStatus, lockClaims, metrics>>

(***************************************************************************)
(* JobPoller, and Orchestrator.runPollingCycle (modules/Orchestrator.ts)   *)
(***************************************************************************)
VARIABLES
  session,       \* the persisted session: its access token and whether it has expired
  graphqlClient, \* JobPoller.graphqlClient: null, or the access token it was built with
  rejected,      \* the access tokens the catalog has answered 401 to
  cycle,         \* per runPollingCycle() invocation: where it stands and its locals
  seen,          \* Redis set job-sniping:seen-jobs
  newJobsQ,      \* Redis list job-sniping:new-jobs, head first
  pushed,        \* LPUSHes of an identifier since it last entered the seen set
  notifications, \* how many jobs were added to the notification queue, per item
  fetched,       \* catalog pages fetched successfully so far
  overlapped     \* whether two cycles have ever been under way at once

discVars == <<session, graphqlClient, rejected, cycle, seen, newJobsQ, pushed,
              notifications, fetched, overlapped>>

(***************************************************************************)
(* retry() (utils/retry.ts)                                                *)
(***************************************************************************)
VARIABLES
  rt,            \* one retry() run: its context and options, the outcomes of the
                 \* invocations of the wrapped call so far, and how it stands
  rtTime         \* the run's clock (ms since its latest invocation started), when the
                 \* next one may start, the retry-after header of the latest and of
                 \* the one before, and the time between the starts of the two

retryVars == <<rt, rtTime>>

(***************************************************************************)
(* The encrypted session file and the data key cache (utils/encryption.ts) *)
(***************************************************************************)
VARIABLES
  envelope,      \* the payload of the session file: its version and its wrapped data key
  dataKeyCache,  \* per wrapped key: the timestamp of its cache entry, if it has one
  lastFetch,     \* per wrapped key: when KMS last returned its plaintext, if ever
  reader         \* per caller of loadSession(): where its loadAndDecrypt() stands

secretVars == <<envelope, dataKeyCache, lastFetch, reader>>

(***************************************************************************)
(* SessionManager (modules/SessionManager.ts)                              *)
(***************************************************************************)
VARIABLES
  browser,       \* this.browser: null, or the browser it refers to
  page,          \* this.page: null, or the browser whose page it refers to
  live,          \* the browsers launched and not closed
  proc           \* per caller of the session manager: its call and where it stands

smVars == <<browser, page, live, proc>>

(***************************************************************************)
(* the calls to external dependencies and what wraps them                  *)
(***************************************************************************)
VARIABLES
  extOp,         \* one operation on an external dependency: its call site, where it
                 \* stands, its invocations so far and the breaker's failure count
                 \* when it began
  sent           \* the requests that left the system: site, and what they ran inside

protVars == <<extOp, sent>>

(***************************************************************************)
(* JobPoller.fetchAllJobs                                                  *)
(***************************************************************************)
VARIABLES
  paging         \* one fetchAllJobs() run: the catalog it reads, its offset and
                 \* allJobs, and the pages it got

pagingVars == <<paging>>

(***************************************************************************)
(* JobApplier: the BullMQ worker and its p-limit limiter                   *)
(***************************************************************************)
VARIABLES
  pool           \* per job of the application queue: not added yet, waiting, handed
                 \* to the processor and pending in the limiter, running
                 \* processJob(), or done

poolVars == <<pool>>

VARIABLES
  orch           \* the Orchestrator process: how far shutdown() has got, the cron
                 \* job, the HTTP server, the two workers and the jobs they have in
                 \* hand, the runPollingCycle() calls under way, the connections

shutVars == <<orch>>

VARIABLES
  ident          \* a new SessionManager: the pool file, how far the constructor's
                 \* loadIdentityPool() has got, identityPool.length, and per caller
                 \* of initialize() how far it has got

identVars == <<ident>>

\* the variables of the supporting components
supportVars == <<retryVars, secretVars, smVars, protVars, pagingVars, poolVars, shutVars,
                 identVars>>

\* the variables of the breaker, the claim worker and the discovery cycle
coreVars == <<cbVars, claimVars, discVars, now>>

vars == <<cbVars, claimVars, discVars, now, supportVars>>

CLOSED == "CLOSED"
OPEN == "OPEN"
HALF_OPEN == "HALF_OPEN"
CircuitState == {CLOSED, OPEN, HALF_OPEN}

Callers == 1..NumCallers

\* Date | undefined is a sequence of at most one instant
Undefined == <<>>
At(t) == <<t>>

\* CircuitBreaker.options before the constructor merges the caller's options in
DefaultOptions ==
  [failureThreshold |-> 5, resetTimeout |-> 60000, monitoringPeriod |-> 10000,
   timeout |-> 30000, volumeThreshold |-> 10]

\* this.options = { ...this.options, ...options }
MergeOptions(given) ==
  [k \in DOMAIN DefaultOptions |->
     IF k \in DOMAIN given THEN given[k] ELSE DefaultOptions[k]]

\* @withCircuitBreaker('amazon-jobs-api', {...}) on JobPoller.fetchJobsPage
AmazonJobsApiOptions ==
  [failureThreshold |-> 5, resetTimeout |-> 60000, timeout |-> 30000]

\* @withCircuitBreaker('captcha-service', {...}) on SessionManager.solveCaptcha
CaptchaServiceOptions ==
  [failureThreshold |-> 3, resetTimeout |-> 120000]

\* a breaker constructed with failure threshold 5, volume threshold 5, reset 60 s
CatalogApiOptions ==
  [failureThreshold |-> 5, volumeThreshold |-> 5, resetTimeout |-> 60000]

\* getCircuitBreaker(name, options): the breakers this model constructs
BreakerNames == {"amazon-jobs-api", "captcha-service", "catalog-api"}

GivenOptions(name) ==
  CASE name = "amazon-jobs-api" -> AmazonJobsApiOptions
    [] name = "captcha-service" -> CaptchaServiceOptions
    [] OTHER -> CatalogApiOptions

Options(name) == MergeOptions(GivenOptions(name))

\* field initialisers of class CircuitBreaker
NewBreaker ==
  [state |-> CLOSED, failureCount |-> 0, successCount |-> 0,
   lastFailureTime |-> Undefined, nextAttempt |-> Undefined]

getTotalRequests(b) == b.failureCount + b.successCount

shouldOpen(b, opts) ==
  /\ b.failureCount >= opts.failureThreshold
  /\ getTotalRequests(b) >= opts.volumeThreshold

\* the reset test without the clock: any breaker that has opened may be retried
shouldAttemptReset_IgnoresClock(b, t) ==
  b.nextAttempt # Undefined

shouldAttemptReset(b, t) ==
  /\ b.nextAttempt # Undefined
  /\ t >= b.nextAttempt[1]

open(b, opts, t) ==
  [b EXCEPT !.state = OPEN, !.nextAttempt = At(t + opts.resetTimeout)]

close(b) ==
  [b EXCEPT !.state = CLOSED, !.failureCount = 0, !.successCount = 0,
            !.nextAttempt = Undefined]

halfOpen(b) == [b EXCEPT !.state = HALF_OPEN]

onSuccess(b) ==
  LET b1 == [b EXCEPT !.failureCount = 0, !.successCount = b.successCount + 1]
  IN IF b1.state = HALF_OPEN THEN close(b1) ELSE b1

onFailure(b, opts, t) ==
  LET b1 == [b EXCEPT !.failureCount = b.failureCount + 1,
                      !.lastFailureTime = At(t)]
  IN IF b1.state = HALF_OPEN THEN open(b1, opts, t)
     ELSE IF shouldOpen(b1, opts) THEN open(b1, opts, t)
     ELSE b1

\* a late completion that is recorded like one that won the race
afterRace_Recorded(b, ok, opts, t) ==
  IF ok THEN onSuccess(b) ELSE onFailure(b, opts, t)

\* Promise.race has settled with the timeout's rejection and execute() has run its
\* catch: when fn() settles afterwards no continuation of execute() is left
afterRace(b, ok, opts, t) == b

InFlight == {c \in Callers : call[c].pc = "inflight"}

\* requests since creation or the last close(): close() starts a new count
Counted(b0, b1) ==
  IF b0.state = HALF_OPEN /\ b1.state = CLOSED THEN 0 ELSE requests + 1

IdleCall(outcome) == [pc |-> outcome, started |-> 0, trial |-> FALSE]

CbInit ==
  /\ cbName \in BreakerNames
  /\ cb = NewBreaker
  /\ call = [c \in Callers |-> IdleCall("new")]
  /\ requests = 0
  /\ now = 0

\* execute(fn), up to the point where fn() has been invoked and the race with the
\* timeout promise is awaited; in OPEN before the reset time it throws at once
Execute(c) ==
  /\ call[c].pc # "inflight"
  /\ IF cb.state = OPEN /\ ~shouldAttemptReset(cb, now)
       THEN /\ call' = [call EXCEPT ![c] = IdleCall("circuit_open")]
            /\ UNCHANGED cb
       ELSE /\ cb.state = CLOSED => requests + Cardinality(InFlight) < MaxCalls
            /\ cb' = IF cb.state = OPEN THEN halfOpen(cb) ELSE cb
            /\ call' = [call EXCEPT ![c] = [pc |-> "inflight", started |-> now,
                                             trial |-> cb.state = OPEN]]
  /\ UNCHANGED <<cbName, requests, now, claimVars, discVars, supportVars>>

\* fn() settles before the timeout promise: onSuccess() or onFailure()
Settle(c, ok) ==
  /\ call[c].pc = "inflight"
  /\ now < call[c].started + Options(cbName).timeout
  /\ cb' = IF ok THEN onSuccess(cb) ELSE onFailure(cb, Options(cbName), now)
  /\ requests' = Counted(cb, cb')
  /\ call' = [call EXCEPT ![c] = IdleCall(IF ok THEN "resolved" ELSE "rejected")]
  /\ UNCHANGED <<cbName, now, claimVars, discVars, supportVars>>

\* the timeout promise rejects first: onFailure(), while fn() is still pending
TimeoutFires(c) ==
  /\ call[c].pc = "inflight"
  /\ now >= call[c].started + Options(cbName).timeout
  /\ cb' = onFailure(cb, Options(cbName), now)
  /\ requests' = Counted(cb, cb')
  /\ call' = [call EXCEPT ![c] = IdleCall("timed_out")]
  /\ UNCHANGED <<cbName, now, claimVars, discVars, supportVars>>

\* the fn() of a timed-out execute() settles: nobody awaits it any more
LateSettle(c) ==
  /\ call[c].pc = "timed_out"
  /\ call' = [call EXCEPT ![c] = IdleCall("late")]
  /\ \E ok \in BOOLEAN : cb' = afterRace(cb, ok, Options(cbName), now)
  /\ UNCHANGED <<cbName, requests, now, claimVars, discVars, supportVars>>

\* time passes; a timeout timer that is due fires before the clock moves on
Tick ==
  /\ now + TickStep <= MaxTime
  /\ \A c \in InFlight : now < call[c].started + Options(cbName).timeout
  /\ now' = now + TickStep
  /\ UNCHANGED <<cbVars, claimVars, discVars, supportVars>>

CbNext ==
  \/ \E c \in Callers : Execute(c)
  \/ \E c \in Callers, ok \in BOOLEAN : Settle(c, ok)
  \/ \E c \in Callers : TimeoutFires(c)
  \/ \E c \in Callers : LateSettle(c)
  \/ Tick

(***************************************************************************)
(* Claims about the circuit breaker, checked under SpecBreaker.            *)
(***************************************************************************)
ResetElapsed == cb.nextAttempt # Undefined /\ now >= cb.nextAttempt[1]

\* C6: once the failure count has reached the failure threshold and the number
\* of calls has reached the volume threshold, the breaker has opened (it is no
\* longer CLOSED).
C6_OpenOnceThresholdsReached ==
  (/\ cb.failureCount >= Options(cbName).failureThreshold
   /\ requests >= Options(cbName).volumeThreshold)
  => cb.state # CLOSED

\* C7: the breaker of the catalog page fetch ('amazon-jobs-api') has opened once
\* 5 consecutive fetch operations have failed.
C7_CatalogBreakerOpensAfterFive ==
  (/\ cbName = "amazon-jobs-api"
   /\ cb.failureCount >= AmazonJobsApiOptions.failureThreshold)
  => cb.state # CLOSED

\* C8: while the breaker is OPEN and its reset timeout has not elapsed, no step
\* invokes a wrapped call: every execute() ends at once as a rejection.
C8_OpenRejectsWithoutInvoking ==
  [][(cb.state = OPEN /\ ~ResetElapsed)
       => \A c \in Callers :
            (call[c].pc # "inflight" /\ call'[c] # call[c])
              => call'[c].pc \in {"circuit_open", "late"}]_vars

C8_Witness ==
  /\ cb.state = OPEN
  /\ ~ResetElapsed
  /\ \E c \in Callers : call[c].pc = "circuit_open"

\* C9: the first execute() after the reset timeout is a HALF_OPEN trial; when the
\* trial succeeds the breaker is CLOSED with both counters 0, and when it fails
\* (or times out) the breaker is OPEN with the next retry one reset timeout later.
C9_TrialDecidesState ==
  [][\A c \in Callers :
       /\ (cb.state = OPEN /\ ResetElapsed /\ call'[c].pc = "inflight"
              /\ call[c].pc # "inflight")
            => (cb'.state = HALF_OPEN /\ call'[c].trial)
       /\ (call[c].pc = "inflight" /\ call[c].trial /\ call'[c].pc = "resolved")
            => (cb'.state = CLOSED /\ cb'.failureCount = 0 /\ cb'.successCount = 0)
       /\ (call[c].pc = "inflight" /\ call[c].trial
              /\ call'[c].pc \in {"rejected", "timed_out"})
            => (/\ cb'.state = OPEN
                /\ cb'.nextAttempt = At(now + Options(cbName).resetTimeout))]_vars

\* C32: a wrapped call still pending when the breaker's timeout expires ends its
\* execute() as timed out and adds exactly one failure; when that call completes
\* later, with either outcome, the breaker's counters and state stay as they are.
C32_TimeoutIsOneFailure ==
  [][\A c \in Callers :
       /\ (/\ call[c].pc = "inflight"
           /\ now >= call[c].started + Options(cbName).timeout
           /\ call'[c] # call[c])
            => (/\ call'[c].pc = "timed_out"
                /\ cb'.failureCount = cb.failureCount + 1
                /\ cb'.successCount = cb.successCount)
       /\ (call[c].pc = "timed_out" /\ call'[c].pc = "late") => cb' = cb]_vars

C32_Witness ==
  \E c \in Callers :
    /\ call[c].pc = "late"
    /\ cb.failureCount = 1
    /\ cb.lastFailureTime = At(Options(cbName).timeout)

\* C37: while the breaker is HALF_OPEN at most one wrapped call is in flight.
C37_OneTrialInHalfOpen ==
  cb.state = HALF_OPEN => Cardinality(InFlight) <= 1

\* C38: the next-retry time is set only when the state changes: while the breaker
\* stays OPEN, a failure of a call that was in flight when it opened does not
\* open it again and leaves the next-retry time where it was.
C38_NoReopenWhileOpen ==
  [][(cb.state = OPEN /\ cb'.state = OPEN) => cb'.nextAttempt = cb.nextAttempt]_vars

\* C39: while the breaker is CLOSED, the volume it compares with the volume
\* threshold is the number of wrapped calls that have ended since it was created
\* or last closed.
C39_VolumeCountsEveryCall ==
  cb.state = CLOSED => getTotalRequests(cb) = requests

(***************************************************************************)
(* JobApplier.processJob under the BullMQ worker                           *)
(***************************************************************************)
Items == 1..NumItems
Slots == 1..Concurrency

\* applicationQueue.add('apply', job, {attempts: 3, backoff: exponential 5000})
Attempts == 3
BackoffDelay == 5000
\* JobApplier.lockTTL, in seconds
LockTTL == 3600

Pow2(n) == IF n <= 0 THEN 1 ELSE IF n = 1 THEN 2 ELSE 4

\* a Redis key with EX is gone once its expiry instant is reached
LockPresent(l, i, t) == l[i] # Undefined /\ t < l[i][1]

\* a plain SET: the reply is OK whether or not the key exists
setNxReply_AlwaysOk(l, i, t) == TRUE

\* redis.set(lockKey, '1', 'EX', lockTTL, 'NX'): the reply, OK (TRUE) or null
setNxReply(l, i, t) == ~LockPresent(l, i, t)

\* redis.set(lockKey, '1', 'EX', lockTTL, 'NX'): the key store afterwards
setNxStore(l, i, t) ==
  IF LockPresent(l, i, t) THEN l ELSE [l EXCEPT ![i] = At(t + LockTTL * 1000)]

\* a processJob() that deletes its lock key when it ends
lockAfterRun_Releases(l, i) == [l EXCEPT ![i] = Undefined]

\* the lock keys when processJob() ends: its finally blocks release nothing
lockAfterRun(l, i) == l

NewTask(i) ==
  [item |-> i, state |-> "waiting", attemptsMade |-> 0, readyAt |-> 0,
   claimsMade |-> 0, outcome |-> "none"]

IdleSlot == [pc |-> "idle", task |-> 0]

\* BullMQ: the processor returned; the 'completed' handler counts a success
JobReturns(k, outcome) ==
  /\ tasks' = [tasks EXCEPT ![k].state = "completed", ![k].outcome = outcome]
  /\ metrics' = [metrics EXCEPT !.applicationsSuccess = @ + 1]

\* BullMQ: the processor threw; the 'failed' handler counts a failure, and the
\* job is delayed for a retry while attempts remain
JobThrows(k) ==
  LET made == tasks[k].attemptsMade + 1
  IN /\ tasks' = [tasks EXCEPT
                    ![k].attemptsMade = made,
                    ![k].outcome = "threw",
                    ![k].state = IF made < Attempts THEN "delayed" ELSE "failed",
                    ![k].readyAt = IF made < Attempts
                                     THEN now + BackoffDelay * Pow2(made - 1)
                                     ELSE 0]
     /\ metrics' = [metrics EXCEPT !.applicationsFailure = @ + 1]

ClaimInit ==
  /\ tasks = <<>>
  /\ slot = [w \in Slots |-> IdleSlot]
  /\ lock = [i \in Items |-> Undefined]
  /\ dbStatus = [i \in Items |-> "discovered"]
  /\ lockClaims = [i \in Items |-> 0]
  /\ metrics = [applicationsSuccess |-> 0, applicationsFailure |-> 0]

\* applicationQueue.add('apply', job, ...): by a discovery cycle or a re-submission
AddTask(i) ==
  /\ Len(tasks) < MaxTasks
  /\ tasks' = Append(tasks, NewTask(i))
  /\ UNCHANGED <<slot, lock, dbStatus, lockClaims, metrics, now, cbVars, discVars, supportVars>>

\* the BullMQ worker hands a waiting job, or a delayed one that is due, to a free slot
TakeTask(w, k) ==
  /\ slot[w].pc = "idle"
  /\ k \in 1..Len(tasks)
  /\ \/ tasks[k].state = "waiting"
     \/ tasks[k].state = "delayed" /\ now >= tasks[k].readyAt
  /\ tasks' = [tasks EXCEPT ![k].state = "active"]
  /\ slot' = [slot EXCEPT ![w] = [pc |-> "lock", task |-> k]]
  /\ UNCHANGED <<lock, dbStatus, lockClaims, metrics, now, cbVars, discVars, supportVars>>

\* a processJob() that treats a refused lock as an error
afterLock_ThrowsWhenRefused(lockAcquired) == IF lockAcquired THEN "proceed" ELSE "throw"

\* processJob: if (!lockAcquired) { ...; return; }
afterLock(lockAcquired) == IF lockAcquired THEN "proceed" ELSE "return"

\* processJob: the idempotency lock; without it the job is skipped and returns
AcquireLock(w) ==
  LET k == slot[w].task
      i == tasks[k].item
  IN /\ slot[w].pc = "lock"
     /\ lock' = setNxStore(lock, i, now)
     /\ IF afterLock(setNxReply(lock, i, now)) = "proceed"
          THEN /\ slot' = [slot EXCEPT ![w].pc = "locked"]
               /\ lockClaims' = [lockClaims EXCEPT ![i] = 0]
               /\ UNCHANGED <<tasks, metrics>>
          ELSE /\ slot' = [slot EXCEPT ![w] = IdleSlot]
               /\ IF afterLock(setNxReply(lock, i, now)) = "return"
                    THEN JobReturns(k, "skipped")
                    ELSE JobThrows(k)
               /\ UNCHANGED lockClaims
     /\ UNCHANGED <<dbStatus, now, cbVars, discVars, supportVars>>

\* processJob: status 'applying', getAuthenticatedPage(), then applyForJob() is
\* invoked; when no page can be had the status is 'failed' and the job throws
StartClaim(w, pageOk) ==
  LET k == slot[w].task
      i == tasks[k].item
  IN /\ slot[w].pc = "locked"
     /\ IF pageOk
          THEN /\ dbStatus' = [dbStatus EXCEPT ![i] = "applying"]
               /\ tasks' = [tasks EXCEPT ![k].claimsMade = @ + 1]
               /\ lockClaims' = [lockClaims EXCEPT ![i] = @ + 1]
               /\ slot' = [slot EXCEPT ![w].pc = "claiming"]
               /\ UNCHANGED <<lock, metrics>>
          ELSE /\ dbStatus' = [dbStatus EXCEPT ![i] = "failed"]
               /\ JobThrows(k)
               /\ lock' = lockAfterRun(lock, i)
               /\ slot' = [slot EXCEPT ![w] = IdleSlot]
               /\ UNCHANGED lockClaims
     /\ UNCHANGED <<now, cbVars, discVars, supportVars>>

\* processJob: applyForJob() ends; status 'applied' and return, or 'failed' and throw
FinishClaim(w, ok) ==
  LET k == slot[w].task
      i == tasks[k].item
  IN /\ slot[w].pc = "claiming"
     /\ dbStatus' = [dbStatus EXCEPT ![i] = IF ok THEN "applied" ELSE "failed"]
     /\ IF ok THEN JobReturns(k, "applied") ELSE JobThrows(k)
     /\ lock' = lockAfterRun(lock, i)
     /\ slot' = [slot EXCEPT ![w] = IdleSlot]
     /\ UNCHANGED <<lockClaims, now, cbVars, discVars, supportVars>>

\* the instants at which a retry becomes due or a lock key expires
Deadlines ==
  {lock[i][1] : i \in {j \in Items : lock[j] # Undefined}}
    \cup {tasks[k].readyAt : k \in {j \in 1..Len(tasks) : tasks[j].state = "delayed"}}

\* time passes up to the next such instant; a processJob() run, whose page
\* operations all carry timeouts of at most a minute, ends within its lock's TTL
AdvanceTime(t) ==
  /\ t \in Deadlines
  /\ t > now
  /\ \A w \in Slots :
       slot[w].pc \in {"locked", "claiming"} => t < lock[tasks[slot[w].task].item][1]
  /\ now' = t
  /\ UNCHANGED <<claimVars, cbVars, discVars, supportVars>>

ClaimNext ==
  \/ \E i \in Items : AddTask(i)
  \/ \E w \in Slots, k \in 1..MaxTasks : TakeTask(w, k)
  \/ \E w \in Slots : AcquireLock(w)
  \/ \E w \in Slots, pageOk \in BOOLEAN : StartClaim(w, pageOk)
  \/ \E w \in Slots, ok \in BOOLEAN : FinishClaim(w, ok)
  \/ \E t \in Deadlines : AdvanceTime(t)

Holds(w, i) == slot[w].pc \in {"locked", "claiming"} /\ tasks[slot[w].task].item = i

Skips(w) == slot[w].pc = "lock" /\ slot'[w].pc = "idle"

\* C3: when two workers process the same identifier, at most one of them holds
\* the lock; a worker that finds no lock takes it; and the worker that does not
\* get it returns with no claim action, no status change and no change to the lock.
C3_OneWorkerAcquires ==
  [][/\ \A w1, w2 \in Slots, i \in Items :
          (Holds(w1, i) /\ Holds(w2, i)) => w1 = w2
     /\ \A w \in Slots :
          (slot[w].pc = "lock" /\ slot'[w].pc # "lock"
             /\ ~LockPresent(lock, tasks[slot[w].task].item, now))
            => slot'[w].pc = "locked"
     /\ \A w \in Slots :
          Skips(w) => /\ dbStatus' = dbStatus
                      /\ lock' = lock
                      /\ lockClaims' = lockClaims
                      /\ \A k \in 1..Len(tasks) : tasks'[k].claimsMade = tasks[k].claimsMade
    ]_vars

\* two tasks of one identifier: one worker is claiming it, the other was skipped
C3_Witness ==
  \E w \in Slots, k \in 1..Len(tasks) :
    /\ slot[w].pc = "claiming"
    /\ k # slot[w].task
    /\ tasks[k].item = tasks[slot[w].task].item
    /\ tasks[k].outcome = "skipped"
    /\ tasks[k].attemptsMade = 0

C27_RefusedLockIsASkip ==
  [][\A w \in Slots :
       Skips(w) =>
         LET k == slot[w].task
         IN /\ tasks'[k].state = "completed"
            /\ tasks'[k].outcome = "skipped"
            /\ tasks'[k].attemptsMade = tasks[k].attemptsMade
            /\ metrics'.applicationsFailure = metrics.applicationsFailure
    ]_vars

\* a first-attempt task that was skipped because the lock of its item was held,
\* with no failure counted
C27_Witness ==
  \E k \in 1..Len(tasks) :
    /\ tasks[k].state = "completed"
    /\ tasks[k].outcome = "skipped"
    /\ tasks[k].attemptsMade = 0
    /\ metrics.applicationsFailure = 0
    /\ LockPresent(lock, tasks[k].item, now)

\* C5: a task whose claim action failed is retried with the claim attempted again:
\* once the queue is done with it, its item is 'applied' or the claim action has
\* been attempted on every one of its attempts.
C5_FailedClaimIsRetried ==
  \A k \in 1..Len(tasks) :
    (/\ tasks[k].state \in {"completed", "failed"}
     /\ tasks[k].claimsMade >= 1
     /\ \A j \in 1..Len(tasks) : tasks[j].item = tasks[k].item => j = k)
      => \/ dbStatus[tasks[k].item] = "applied"
         \/ tasks[k].claimsMade = Attempts

\* C36: a task the queue has completed, the only task of its item, is one whose
\* claim action succeeded: the item's persisted status is 'applied' (so never
\* 'failed').
C36_CompletedMeansApplied ==
  \A k \in 1..Len(tasks) :
    (/\ tasks[k].state = "completed"
     /\ \A j \in 1..Len(tasks) : tasks[j].item = tasks[k].item => j = k)
      => dbStatus[tasks[k].item] = "applied"

(***************************************************************************)
(* JobPoller.poll under Orchestrator.runPollingCycle                       *)
(***************************************************************************)
Cycles == 1..NumCycles
Null == 0

\* what one fetchJobsPage() can return: up to PageLimit distinct jobs
Pages ==
  {p \in UNION {[1..n -> Items] : n \in 0..PageLimit} :
     \A a, b \in DOMAIN p : a # b => p[a] # p[b]}

IdleCycle ==
  [pc |-> "idle", jobs |-> <<>>, pages |-> 0, newJobs |-> <<>>, drained |-> 0,
   after401 |-> FALSE, fetchError |-> FALSE]

IdsOf(q) == {q[n] : n \in DOMAIN q}

Occurrences(q, id) == Cardinality({n \in DOMAIN q : q[n] = id})

Reverse(q) == [n \in 1..Len(q) |-> q[Len(q) + 1 - n]]

Active == {c \in Cycles : cycle[c].pc # "idle"}

\* filterNewJobs: every SISMEMBER is answered before anything is inserted
filterNewJobs(jobs, seenSet) == SelectSeq(jobs, LAMBDA id : id \notin seenSet)

\* a poll() that goes on with the pages it had when a fetch failed
afterFetchError_KeepsPages(cy) ==
  [cy EXCEPT !.pc = "filter", !.fetchError = TRUE]

\* fetchAllJobs has no catch and poll()'s catch rethrows: the pages already
\* fetched are local to the call that threw and the cycle is over; the slot keeps
\* how many pages had been fetched when it failed
afterFetchError(cy) ==
  [IdleCycle EXCEPT !.fetchError = TRUE, !.pages = cy.pages]

DiscInit ==
  /\ session = [gen |-> 1, expired |-> FALSE]
  /\ graphqlClient = Null
  /\ rejected = {}
  /\ cycle = [c \in Cycles |-> IdleCycle]
  /\ seen = {}
  /\ newJobsQ = <<>>
  /\ pushed = [i \in Items |-> 0]
  /\ notifications = [i \in Items |-> 0]
  /\ fetched = 0
  /\ overlapped = FALSE

\* the cron tick, the initial poll or POST /admin/trigger-poll calls runPollingCycle()
StartCycle(c) ==
  /\ cycle[c].pc = "idle"
  /\ cycle' = [cycle EXCEPT ![c] = [IdleCycle EXCEPT !.pc = "init",
                                                     !.after401 = rejected # {}]]
  /\ overlapped' = (overlapped \/ Active # {})
  /\ UNCHANGED <<session, graphqlClient, rejected, seen, newJobsQ, pushed,
                 notifications, fetched, now, cbVars, claimVars, supportVars>>

\* poll: the client is built only when there is none; getSessionTokens() loads the
\* session, refreshing an expired one, and throws when no session comes of it
InitClient(c, refreshOk) ==
  /\ cycle[c].pc = "init"
  /\ refreshOk => session.gen < MaxGen
  /\ IF graphqlClient # Null
       THEN /\ cycle' = [cycle EXCEPT ![c].pc = "paging"]
            /\ UNCHANGED <<session, graphqlClient>>
       ELSE IF ~session.expired
         THEN /\ graphqlClient' = session.gen
              /\ cycle' = [cycle EXCEPT ![c].pc = "paging"]
              /\ UNCHANGED session
         ELSE IF refreshOk
           THEN /\ session' = [gen |-> session.gen + 1, expired |-> FALSE]
                /\ graphqlClient' = session.gen + 1
                /\ cycle' = [cycle EXCEPT ![c].pc = "paging"]
           ELSE /\ cycle' = [cycle EXCEPT ![c] = IdleCycle]
                /\ UNCHANGED <<session, graphqlClient>>
  /\ UNCHANGED <<rejected, seen, newJobsQ, pushed, notifications, fetched,
                 overlapped, now, cbVars, claimVars, supportVars>>

\* signInUserSession.expiresAt has passed
SessionExpires ==
  /\ ~session.expired
  /\ session' = [session EXCEPT !.expired = TRUE]
  /\ UNCHANGED <<graphqlClient, rejected, cycle, seen, newJobsQ, pushed,
                 notifications, fetched, overlapped, now, cbVars, claimVars, supportVars>>

\* fetchAllJobs: one fetchJobsPage() answers with a page; an empty page, a null
\* nextOffset or a short page ends the paging
FetchPage(c, p, hasNext) ==
  LET more == Len(p) = PageLimit /\ hasNext
  IN /\ cycle[c].pc = "paging"
     /\ fetched < MaxFetches
     /\ more => cycle[c].pages + 1 < MaxPages
     /\ fetched' = fetched + 1
     /\ cycle' = [cycle EXCEPT ![c].jobs = @ \o p,
                               ![c].pages = @ + 1,
                               ![c].pc = IF more THEN "paging" ELSE "filter"]
     /\ UNCHANGED <<session, graphqlClient, rejected, seen, newJobsQ, pushed,
                    notifications, overlapped, now, cbVars, claimVars, supportVars>>

\* fetchJobsPage() fails: with a 401, which is not retried, or otherwise (its
\* retries are used up, it timed out, or its breaker rejected the call); poll()
\* and runPollingCycle() log and rethrow, and the client stays as it is
FetchFails(c, unauthorized) ==
  /\ cycle[c].pc = "paging"
  /\ rejected' = IF unauthorized THEN rejected \cup {graphqlClient} ELSE rejected
  /\ cycle' = [cycle EXCEPT ![c] = afterFetchError(cycle[c])]
  /\ UNCHANGED <<session, graphqlClient, seen, newJobsQ, pushed, notifications,
                 fetched, overlapped, now, cbVars, claimVars, supportVars>>

\* poll: filterNewJobs(jobs); with nothing new the cycle is over
Filter(c) ==
  LET new == filterNewJobs(cycle[c].jobs, seen)
  IN /\ cycle[c].pc = "filter"
     /\ cycle' = [cycle EXCEPT ![c] = IF new = <<>>
                                        THEN IdleCycle
                                        ELSE [@ EXCEPT !.pc = "enqueue", !.newJobs = new]]
     /\ UNCHANGED <<session, graphqlClient, rejected, seen, newJobsQ, pushed,
                    notifications, fetched, overlapped, now, cbVars, claimVars, supportVars>>

\* poll: enqueueNewJobs(newJobs): each job is saved as 'discovered' (a failed save
\* is only logged), then one pipeline SADDs and LPUSHes every job in turn
Enqueue(c, dbOk) ==
  LET new == cycle[c].newJobs
  IN /\ cycle[c].pc = "enqueue"
     /\ dbStatus' = [i \in Items |->
                       IF dbOk /\ i \in IdsOf(new) THEN "discovered" ELSE dbStatus[i]]
     /\ seen' = seen \cup IdsOf(new)
     /\ newJobsQ' = Reverse(new) \o newJobsQ
     /\ pushed' = [i \in Items |->
                     (IF i \in seen THEN pushed[i] ELSE 0) + Occurrences(new, i)]
     /\ cycle' = [cycle EXCEPT ![c].pc = "drain"]
     /\ UNCHANGED <<session, graphqlClient, rejected, notifications, fetched,
                    overlapped, now, cbVars, tasks, slot, lock, lockClaims, metrics, supportVars>>

\* runPollingCycle: one turn of its loop: RPOP, then the job is added to the
\* application queue and to the notification queue; an add that fails ends the cycle
DrainOne(c, applyOk, notifyOk) ==
  LET last == cycle[c].drained + 1 = Len(cycle[c].newJobs)
      job == newJobsQ[Len(newJobsQ)]
  IN /\ cycle[c].pc = "drain"
     /\ IF newJobsQ = <<>>
          THEN /\ cycle' = [cycle EXCEPT ![c] = IF last THEN IdleCycle
                                                 ELSE [@ EXCEPT !.drained = @ + 1]]
               /\ UNCHANGED <<newJobsQ, tasks, notifications>>
          ELSE /\ newJobsQ' = SubSeq(newJobsQ, 1, Len(newJobsQ) - 1)
               /\ tasks' = IF applyOk THEN Append(tasks, NewTask(job)) ELSE tasks
               /\ notifications' = IF applyOk /\ notifyOk
                                     THEN [notifications EXCEPT ![job] = @ + 1]
                                     ELSE notifications
               /\ cycle' = [cycle EXCEPT ![c] = IF last \/ ~applyOk \/ ~notifyOk
                                                   THEN IdleCycle
                                                   ELSE [@ EXCEPT !.drained = @ + 1]]
     /\ UNCHANGED <<session, graphqlClient, rejected, seen, pushed, fetched,
                    overlapped, now, cbVars, slot, lock, dbStatus, lockClaims, metrics, supportVars>>

\* the seen set's 30-day expiry, renewed by every enqueue, runs out
SeenExpires ==
  /\ seen # {}
  /\ Active = {}
  /\ seen' = {}
  /\ UNCHANGED <<session, graphqlClient, rejected, cycle, newJobsQ, pushed,
                 notifications, fetched, overlapped, now, cbVars, claimVars, supportVars>>

DiscNext ==
  \/ \E c \in Cycles : StartCycle(c)
  \/ \E c \in Cycles, refreshOk \in BOOLEAN : InitClient(c, refreshOk)
  \/ SessionExpires
  \/ \E c \in Cycles, p \in Pages, hasNext \in BOOLEAN : FetchPage(c, p, hasNext)
  \/ \E c \in Cycles, unauthorized \in BOOLEAN : FetchFails(c, unauthorized)
  \/ \E c \in Cycles : Filter(c)
  \/ \E c \in Cycles, dbOk \in BOOLEAN : Enqueue(c, dbOk)
  \/ \E c \in Cycles, applyOk \in BOOLEAN, notifyOk \in BOOLEAN : DrainOne(c, applyOk, notifyOk)
  \/ SeenExpires

\* C1: over cycles that run one after the other, an identifier is pushed to the
\* new-jobs queue at most once while it is in the seen set, however often the
\* catalog returns it in later pages or cycles.
C1_EnqueuedOnceWhileSeen ==
  ~overlapped => \A i \in Items : i \in seen => pushed[i] <= 1

\* C2: two cycles under way at once never both treat one identifier as new.
C2_CyclesNeverShareNewItem ==
  \A c1, c2 \in Cycles :
    c1 # c2 => IdsOf(cycle[c1].newJobs) \cap IdsOf(cycle[c2].newJobs) = {}

\* C10: a cycle begun after a cycle failed with a 401 fetches from the catalog
\* only with a client rebuilt from tokens the catalog has not rejected.
C10_ReauthBeforeNextCycle ==
  \A c \in Cycles :
    (cycle[c].pc = "paging" /\ cycle[c].after401) => graphqlClient \notin rejected

\* C12: a cycle goes on to its catalog fetches only when the session manager has
\* supplied it a valid session: the session is unexpired and the client carries
\* its access token; otherwise the cycle ends with no fetch.
C12_FetchOnlyWithValidSession ==
  [][\A c \in Cycles :
       (cycle[c].pc = "init" /\ cycle'[c].pc = "paging")
         => (~session'.expired /\ graphqlClient' = session'.gen)
    ]_vars

\* C29: when a cycle that does not overlap another completes its drain without
\* error, what it published were its reported items, and none of its reported
\* items is still in the new-jobs list.
C29_CyclePublishesItsReportedItems ==
  [][\A c \in Cycles :
       (/\ ~overlapped
        /\ cycle[c].pc = "drain" /\ cycle'[c].pc = "idle"
        /\ newJobsQ # <<>>
        /\ Len(tasks') = Len(tasks) + 1
        /\ notifications' # notifications)
         => /\ newJobsQ[Len(newJobsQ)] \in IdsOf(cycle[c].newJobs)
            /\ IdsOf(cycle[c].newJobs) \cap IdsOf(newJobsQ') = {}
    ]_vars

\* C34: when a page fetch of a cycle fails, the cycle is over with nothing
\* written: the seen set, the new-jobs list, the application queue and the
\* notifications are as they were, also when earlier pages had been fetched.
C34_FailedFetchWritesNothing ==
  [][\A c \in Cycles :
       (cycle[c].pc = "paging" /\ cycle'[c].fetchError)
         => /\ cycle'[c].pc = "idle"
            /\ seen' = seen /\ newJobsQ' = newJobsQ /\ pushed' = pushed
            /\ tasks' = tasks /\ notifications' = notifications]_vars

\* a cycle failed after a full first page, and nothing was written
C34_Witness ==
  \E c \in Cycles :
    /\ cycle[c].fetchError /\ cycle[c].pages = 1
    /\ fetched = 1
    /\ seen = {} /\ newJobsQ = <<>> /\ tasks = <<>>

\* C33: within one cycle an identifier that occurs more than once in the
\* concatenated candidate list is treated as new once: the cycle's list of new
\* jobs, which is what it enqueues and counts, holds it once.
C33_DuplicateCandidateNewOnce ==
  \A c \in Cycles, i \in Items : Occurrences(cycle[c].newJobs, i) <= 1

\* C35: every identifier put into the seen set comes to have a ClaimTask; in
\* particular no step takes an item off the new-jobs list without publishing a
\* ClaimTask for it.
C35_PoppedItemIsPublished ==
  [][Len(newJobsQ') < Len(newJobsQ)
       => /\ Len(tasks') = Len(tasks) + 1
          /\ tasks'[Len(tasks')].item = newJobsQ[Len(newJobsQ)]]_vars

(***************************************************************************)
(* retry() and its callers' options                                        *)
(***************************************************************************)
Statuses == {401, 404, 429, 500}

\* what one invocation of the wrapped call can end in: a value, or an error that
\* may be a PermanentError and may carry response.status (0: no response)
Success == [ok |-> TRUE, marker |-> FALSE, status |-> 0]

Failures == [ok : {FALSE}, marker : BOOLEAN, status : {0} \cup Statuses]

Results == {Success} \cup Failures

NoError == [ok |-> TRUE, marker |-> FALSE, status |-> 0]

PermanentError == [ok |-> FALSE, marker |-> TRUE, status |-> 0]

Contexts == {"fetch-jobs-page", "token-refresh", "retry"}

\* defaultOptions.retries
defaultRetries == 3

\* retryNetworkRequest: retries: options.retries ?? 5
networkRetries == 5

\* fetchJobsPage passes { retries: 3 }
fetchRetries == 3

\* the retries a run has: fetchJobsPage and refreshToken go through
\* retryNetworkRequest, the latter with no options
RetriesOf(context) ==
  CASE context = "fetch-jobs-page" -> fetchRetries
    [] context = "token-refresh" -> networkRetries
    [] OTHER -> defaultRetries

\* what the wrapped call throws: fetchJobsPage turns a 401 into a PermanentError
Thrown(context, res) ==
  IF context = "fetch-jobs-page" /\ res.status = 401 THEN PermanentError ELSE res

\* a retry() that never aborts
shouldAbort_Never(err) == FALSE

\* retry: a PermanentError, or a status in 400..499 other than 429, is an AbortError
shouldAbort(err) ==
  \/ err.marker
  \/ err.status >= 400 /\ err.status < 500 /\ err.status # 429

\* a p-retry that allows one attempt more
maxAttempts_OneMore(retries) == retries + 2

\* p-retry: the first attempt and then `retries` more
maxAttempts(retries) == retries + 1

\* retry-after of a response: a number of seconds, -1 when the header is absent,
\* -2 when it is an HTTP date
Hints == (-2)..MaxHint

\* defaultOptions.minTimeout / maxTimeout
defaultMinTimeout == 1000

defaultMaxTimeout == 30000

\* retryNetworkRequest: minTimeout ?? 2000, maxTimeout ?? 60000 (fetchJobsPage
\* passes minTimeout 2000 itself)
networkMinTimeout == 2000

networkMaxTimeout == 60000

\* a retry() that throws a 429 on at once
retryAfterDelay_None(status, hint) == 0

\* retry: on a 429 with a retry-after header, parseInt(retryAfter, 10) * 1000 ms
\* are waited before the error is thrown on; parseInt of a date is NaN and the
\* timer fires at once
retryAfterDelay(status, hint) ==
  IF status = 429 /\ hint \in 0..MaxHint THEN hint * 1000 ELSE 0

\* p-retry: the wait before the invocation after the made-th failure,
\* random * minTimeout * factor^(made - 1) capped at maxTimeout, with random in [1, 2)
\* taken as halves/2
Backoff(context, made, halves) ==
  LET minT == IF context = "retry" THEN defaultMinTimeout ELSE networkMinTimeout
      maxT == IF context = "retry" THEN defaultMaxTimeout ELSE networkMaxTimeout
      t == (halves * minT * 2^(made - 1)) \div 2
  IN IF t < maxT THEN t ELSE maxT

IdleRetry ==
  [context |-> "retry", retries |-> defaultRetries, calls |-> <<>>,
   status |-> "idle", error |-> NoError]

IdleRetryTime == [now |-> 0, readyAt |-> 0, hint |-> -1, prevHint |-> -1, gap |-> 0]

RetryInit == rt = IdleRetry /\ rtTime = IdleRetryTime

\* retry(fn, options, context) is called
RetryStart(context) ==
  /\ rt.status # "running"
  /\ rt' = [context |-> context, retries |-> RetriesOf(context), calls |-> <<>>,
            status |-> "running", error |-> NoError]
  /\ rtTime' = IdleRetryTime
  /\ UNCHANGED <<coreVars, secretVars, smVars, protVars, pagingVars, poolVars, shutVars, identVars>>

\* one invocation of the wrapped call starts, once the waits after the last
\* failure are over, and ends: the run resolves, aborts, goes on to another attempt
\* after the retry-after wait and the backoff, or rejects with the last error once
\* its attempts are used up
RetryAttempt(res, hint, halves) ==
  LET err == Thrown(rt.context, res)
      made == Len(rt.calls) + 1
  IN /\ rt.status = "running"
     /\ rtTime.now >= rtTime.readyAt
     /\ (hint # -1) => res.status = 429
     /\ rtTime' = [now |-> 0,
                   readyAt |-> IF res.ok \/ shouldAbort(err) \/ made >= maxAttempts(rt.retries)
                                 THEN 0
                                 ELSE retryAfterDelay(err.status, hint)
                                        + Backoff(rt.context, made, halves),
                   hint |-> hint,
                   prevHint |-> rtTime.hint,
                   gap |-> rtTime.now]
     /\ rt' = [rt EXCEPT
                 !.calls = Append(@, res),
                 !.status = IF res.ok THEN "resolved"
                            ELSE IF shouldAbort(err) THEN "rejected"
                            ELSE IF made < maxAttempts(rt.retries) THEN "running"
                            ELSE "rejected",
                 !.error = IF res.ok THEN NoError ELSE err]
     /\ UNCHANGED <<coreVars, secretVars, smVars, protVars, pagingVars, poolVars, shutVars, identVars>>

\* the timers of the run fire: the clock reaches the start of the next invocation
RetryTick ==
  /\ rt.status = "running"
  /\ rtTime.now < rtTime.readyAt
  /\ rtTime' = [rtTime EXCEPT !.now = rtTime.readyAt]
  /\ UNCHANGED <<rt, coreVars, secretVars, smVars, protVars, pagingVars, poolVars, shutVars, identVars>>

RetryNext ==
  \/ \E context \in Contexts : RetryStart(context)
  \/ \E res \in Results, hint \in Hints, halves \in {2, 3} : RetryAttempt(res, hint, halves)
  \/ RetryTick

\* what the specification calls permanent: the marker, or a 4xx other than 429
ClientError(res) == res.status \in {401, 404}

\* C11: in a catalog page fetch a 401 response ends the fetch: it is the last
\* invocation of the fetch, and the fetch rejects with the error as a permanent one.
C11_UnauthorizedFetchNotRetried ==
  rt.context = "fetch-jobs-page" =>
    \A n \in 1..Len(rt.calls) :
      rt.calls[n].status = 401 =>
        /\ n = Len(rt.calls)
        /\ rt.status = "rejected"
        /\ rt.error = PermanentError

\* a fetch that failed transiently, was retried, and then got a 401
C11_Witness ==
  /\ rt.context = "fetch-jobs-page"
  /\ rt.status = "rejected"
  /\ Len(rt.calls) = 2
  /\ rt.calls[1].status = 500
  /\ rt.calls[2].status = 401

\* C20: an invocation that fails with a PermanentError or a 4xx other than 429 is
\* the last one and the run rejects; after any other failure the run goes on
\* until an invocation succeeds or retries + 1 invocations have been made, and
\* then rejects with the failure.
C20_RetryPolicy ==
  LET n == Len(rt.calls)
      Permanent(res) == ~res.ok /\ (res.marker \/ ClientError(res))
      Transient(res) == ~res.ok /\ ~Permanent(res)
  IN /\ \A k \in 1..n : (rt.calls[k].ok \/ Permanent(rt.calls[k])) => k = n
     /\ n <= rt.retries + 1
     /\ (n > 0 /\ rt.calls[n].ok) => rt.status = "resolved"
     /\ (n > 0 /\ Permanent(rt.calls[n])) => (rt.status = "rejected" /\ rt.error # NoError)
     /\ (n > 0 /\ Transient(rt.calls[n]))
          => IF n < rt.retries + 1
               THEN rt.status = "running"
               ELSE rt.status = "rejected" /\ rt.error = rt.calls[n]
     /\ n = 0 => rt.status \in {"idle", "running"}

\* a token refresh that used up its six attempts on transient failures
C20_Witness ==
  /\ rt.context = "token-refresh"
  /\ rt.status = "rejected"
  /\ Len(rt.calls) = networkRetries + 1
  /\ rt.calls[1].status = 429
  /\ rt.calls[Len(rt.calls)].status = 0

\* C21: after an invocation that failed with a 429 carrying a retry-after of s
\* seconds, the next invocation of the run starts no sooner than s seconds after
\* that failure
C21_RetryAfterHonoured ==
  LET n == Len(rt.calls)
  IN (n >= 2 /\ rt.calls[n - 1].status = 429 /\ rtTime.prevHint \in 0..MaxHint)
       => rtTime.gap >= rtTime.prevHint * 1000

\* a catalog fetch whose first invocation got a 429 with the largest retry-after
\* and whose second invocation has been made
C21_Witness ==
  /\ rt.context = "fetch-jobs-page"
  /\ Len(rt.calls) = 2
  /\ rt.calls[1].status = 429
  /\ rtTime.prevHint = MaxHint
  /\ rtTime.gap = MaxHint * 1000 + networkMinTimeout

(***************************************************************************)
(* loadAndDecrypt, decryptDataKey and the cache sweep                      *)
(***************************************************************************)
Keys == 1..NumKeys
Readers == 1..NumReaders

\* const CACHE_TTL = 3600000
CACHE_TTL == 3600000

\* the session file does not exist (readFile fails with ENOENT)
NoEnvelope == [version |-> 0, key |-> 0]

\* encryptAndSave writes version 1; version 2 is a file this code did not write
Envelopes == {NoEnvelope} \cup [version : {1, 2}, key : Keys]

\* a cache that never looks at the age of its entries
cacheFresh_Always(entry, t) == entry # Undefined

\* decryptDataKey: cached && Date.now() - cached.timestamp < CACHE_TTL
cacheFresh(entry, t) == entry # Undefined /\ t - entry[1] < CACHE_TTL

\* the sweep: now - cache.timestamp > CACHE_TTL
cacheExpired(entry, t) == entry # Undefined /\ t - entry[1] > CACHE_TTL

IdleReader ==
  [pc |-> "idle", version |-> 0, key |-> 0, how |-> "none", thrown |-> "none",
   result |-> "none"]

\* loadSession: whatever loadAndDecrypt() throws is logged and null is returned
loadSessionCatch(thrown) == "null"

SecretInit ==
  /\ envelope = NoEnvelope
  /\ dataKeyCache = [k \in Keys |-> Undefined]
  /\ lastFetch = [k \in Keys |-> Undefined]
  /\ reader = [r \in Readers |-> IdleReader]

\* the session file is written (encryptAndSave, under a new data key, or another
\* program) or removed
SetEnvelope(e) ==
  /\ e # envelope
  /\ envelope' = e
  /\ UNCHANGED <<dataKeyCache, lastFetch, reader, coreVars, retryVars, smVars, protVars, pagingVars, poolVars, shutVars, identVars>>

\* loadSession calls loadAndDecrypt: no file gives null, a version other than 1
\* throws, and otherwise decryptDataKey answers from the cache or sends a
\* DecryptCommand to KMS
Load(r) ==
  /\ reader[r].pc # "kms"
  /\ reader' = [reader EXCEPT ![r] =
       IF envelope.version = 0
         THEN [IdleReader EXCEPT !.pc = "done", !.result = "null"]
       ELSE IF envelope.version # 1
         THEN [IdleReader EXCEPT !.pc = "done", !.version = envelope.version,
                                 !.thrown = "unsupported",
                                 !.result = loadSessionCatch("unsupported")]
       ELSE IF cacheFresh(dataKeyCache[envelope.key], now)
         THEN [IdleReader EXCEPT !.pc = "done", !.version = 1, !.key = envelope.key,
                                 !.how = "hit", !.result = "session"]
         ELSE [IdleReader EXCEPT !.pc = "kms", !.version = 1, !.key = envelope.key,
                                 !.how = "miss"]]
  /\ UNCHANGED <<envelope, dataKeyCache, lastFetch, coreVars, retryVars, smVars, protVars, pagingVars, poolVars, shutVars, identVars>>

\* KMS answers: the plaintext is cached with the current timestamp, or the
\* failure is thrown out of loadAndDecrypt
KmsReplies(r, ok) ==
  /\ reader[r].pc = "kms"
  /\ IF ok
       THEN /\ dataKeyCache' = [dataKeyCache EXCEPT ![reader[r].key] = At(now)]
            /\ lastFetch' = [lastFetch EXCEPT ![reader[r].key] = At(now)]
            /\ reader' = [reader EXCEPT ![r].pc = "done", ![r].result = "session"]
       ELSE /\ reader' = [reader EXCEPT ![r].pc = "done", ![r].thrown = "kms_failed",
                                        ![r].result = loadSessionCatch("kms_failed")]
            /\ UNCHANGED <<dataKeyCache, lastFetch>>
  /\ UNCHANGED <<envelope, coreVars, retryVars, smVars, protVars, pagingVars, poolVars, shutVars, identVars>>

\* the setInterval sweep evicts the entries older than the TTL
Sweep ==
  /\ \E k \in Keys : cacheExpired(dataKeyCache[k], now)
  /\ dataKeyCache' = [k \in Keys |->
                        IF cacheExpired(dataKeyCache[k], now) THEN Undefined
                        ELSE dataKeyCache[k]]
  /\ UNCHANGED <<envelope, lastFetch, reader, coreVars, retryVars, smVars, protVars, pagingVars, poolVars, shutVars, identVars>>

CacheTick ==
  /\ now + CacheStep <= CacheMaxTime
  /\ now' = now + CacheStep
  /\ UNCHANGED <<cbVars, claimVars, discVars, supportVars>>

SecretNext ==
  \/ \E e \in Envelopes : SetEnvelope(e)
  \/ \E r \in Readers : Load(r)
  \/ \E r \in Readers, ok \in BOOLEAN : KmsReplies(r, ok)
  \/ Sweep
  \/ CacheTick

Unwraps(r) == reader[r].pc # "kms" /\ reader'[r] # reader[r] /\ reader'[r].version = 1

\* C18: a request for a wrapped key made less than the TTL after KMS last returned
\* it is answered from the cache with no KMS call; a request made once the TTL has
\* elapsed (or for a key never fetched) calls KMS, swept or not; and the KMS
\* answer restarts the TTL.
C18_CacheTtlLaw ==
  [][\A r \in Readers :
       /\ Unwraps(r) =>
            LET k == reader'[r].key
            IN IF lastFetch[k] # Undefined /\ now - lastFetch[k][1] < CACHE_TTL
                 THEN reader'[r].pc = "done" /\ reader'[r].how = "hit"
                 ELSE reader'[r].pc = "kms" /\ reader'[r].how = "miss"
       /\ (reader[r].pc = "kms" /\ reader'[r].result = "session")
            => lastFetch'[reader[r].key] = At(now)
    ]_vars

\* a key fetched at 0 was served from the cache, and is being fetched again by a
\* request made after the TTL
C18_Witness ==
  \E r1, r2 \in Readers :
    /\ reader[r1].pc = "kms"
    /\ lastFetch[reader[r1].key] # Undefined
    /\ now - lastFetch[reader[r1].key][1] >= CACHE_TTL
    /\ reader[r2].how = "hit"
    /\ reader[r2].key = reader[r1].key

\* C19: loading an envelope whose version is not 1 never unwraps a key, and ends
\* in an error, not in a "no session" result.
C19_UnsupportedVersionIsFatal ==
  \A r \in Readers :
    (reader[r].pc = "done" /\ reader[r].version \notin {0, 1})
      => /\ reader[r].how = "none"
         /\ reader[r].thrown = "unsupported"
         /\ reader[r].result # "null"

(***************************************************************************)
(* SessionManager: initialize, getSessionTokens, getAuthenticatedPage and  *)
(* cleanup, interleaved at their awaits                                    *)
(***************************************************************************)
Procs == 1..NumProcs
Browsers == 1..MaxBrowsers
Ops == {"initialize", "getSessionTokens", "getAuthenticatedPage", "cleanup"}

IdleProc ==
  [op |-> "none", pc |-> "idle", phase |-> "none", loaded |-> "none",
   refreshed |-> "none", saved |-> "none", validated |-> "none", logins |-> 0,
   loginFailed |-> FALSE, result |-> "none"]

\* an initialize() that trusts whatever session it loaded
usesExisting_SkipsValidation(loadedOk, valid) == loadedOk

\* initialize: existingSession && await this.validateSession(existingSession)
usesExisting(loadedOk, valid) == loadedOk /\ valid

\* a performFullLogin() that logs a failure and returns
fullLoginResult_Swallows(stepsOk, saveOk) == "ok"

\* performFullLogin: any failing step, and a failing saveSession, is rethrown
fullLoginResult(stepsOk, saveOk) == IF stepsOk /\ saveOk THEN "ok" ELSE "error"

\* encryptAndSave under a new data key; the record carries a new access token
SavedEnvelope == [version |-> 1, key |-> (envelope.key % NumKeys) + 1]

SavedSession ==
  [gen |-> IF session.gen < MaxGen THEN session.gen + 1 ELSE session.gen,
   expired |-> FALSE]

\* the call returns or rejects; getAuthenticatedPage() needs this.page after initialize()
Finished(pr, res, pg) ==
  [pr EXCEPT !.pc = "done",
             !.result = IF res = "ok" /\ pr.op = "getAuthenticatedPage" /\ pg = Null
                          THEN "error" ELSE res]

\* loadSession() has returned: getSessionTokens() throws without a session;
\* initialize() validates the session it got and logs in fully when it got none
AfterLoad(pr, v, pg) ==
  LET pr1 == [pr EXCEPT !.loaded = v]
  IN IF pr.op = "getSessionTokens"
       THEN Finished(pr1, IF v = "session" THEN "ok" ELSE "error", pg)
       ELSE IF v = "session"
         THEN [pr1 EXCEPT !.pc = "lb", !.phase = "validate"]
         ELSE [pr1 EXCEPT !.pc = "login"]

\* launchBrowser() threw: validateSession() catches it and returns false,
\* performFullLogin() lets it through
LaunchThrows(pr, pg) ==
  IF pr.phase = "validate"
    THEN [pr EXCEPT !.validated = "false", !.pc = "login"]
    ELSE Finished([pr EXCEPT !.loginFailed = TRUE], fullLoginResult(FALSE, FALSE), pg)

SmInit ==
  /\ browser = Null
  /\ page = Null
  /\ live = {}
  /\ proc = [p \in Procs |-> IdleProc]

\* a caller calls the session manager; getAuthenticatedPage() with a page returns it
SmCall(p, op) ==
  /\ proc[p].pc \in {"idle", "done"}
  /\ proc' = [proc EXCEPT ![p] =
       IF op = "cleanup" THEN [IdleProc EXCEPT !.op = op, !.pc = "cl_page"]
       ELSE IF op = "getAuthenticatedPage" /\ page # Null
         THEN [IdleProc EXCEPT !.op = op, !.pc = "done", !.result = "ok"]
         ELSE [IdleProc EXCEPT !.op = op, !.pc = "load"]]
  /\ UNCHANGED <<browser, page, live, coreVars, retryVars, secretVars, protVars, pagingVars, poolVars, shutVars, identVars>>

\* loadSession: loadAndDecrypt() gives the session, or null (no file) or throws
\* (version, KMS), which loadSession turns into null; an expired session is refreshed
SmLoad(p, kmsOk) ==
  /\ proc[p].pc = "load"
  /\ proc' = [proc EXCEPT ![p] =
       IF envelope.version # 1 \/ ~kmsOk THEN AfterLoad(@, "null", page)
       ELSE IF session.expired THEN [@ EXCEPT !.pc = "refresh"]
       ELSE AfterLoad(@, "session", page)]
  /\ UNCHANGED <<browser, page, live, coreVars, retryVars, secretVars, protVars, pagingVars, poolVars, shutVars, identVars>>

\* loadSession: refreshToken() returns the new record, or null when it failed
SmRefresh(p, ok) ==
  /\ proc[p].pc = "refresh"
  /\ proc' = [proc EXCEPT ![p] =
       IF ok THEN [@ EXCEPT !.refreshed = "ok", !.pc = "save"]
       ELSE AfterLoad([@ EXCEPT !.refreshed = "failed"], "null", page)]
  /\ UNCHANGED <<browser, page, live, coreVars, retryVars, secretVars, protVars, pagingVars, poolVars, shutVars, identVars>>

\* loadSession: saveSession(refreshed), then the refreshed record is returned; a
\* save that throws is caught and null is returned
SmSaveRefreshed(p, ok) ==
  /\ proc[p].pc = "save"
  /\ IF ok
       THEN /\ envelope' = SavedEnvelope
            /\ session' = SavedSession
            /\ proc' = [proc EXCEPT ![p] = AfterLoad([@ EXCEPT !.saved = "refresh"], "session", page)]
       ELSE /\ proc' = [proc EXCEPT ![p] = AfterLoad(@, "null", page)]
            /\ UNCHANGED <<envelope, session>>
  /\ UNCHANGED <<browser, page, live, cbVars, claimVars, now, graphqlClient, rejected,
                 cycle, seen, newJobsQ, pushed, notifications, fetched, overlapped,
                 retryVars, dataKeyCache, lastFetch, reader, protVars, pagingVars, poolVars, shutVars, identVars>>

\* launchBrowser: if (this.browser) await this.cleanup()
SmLaunchEnter(p) ==
  /\ proc[p].pc = "lb"
  /\ proc' = [proc EXCEPT ![p].pc = IF browser # Null THEN "cl_page" ELSE "launch"]
  /\ UNCHANGED <<browser, page, live, coreVars, retryVars, secretVars, protVars, pagingVars, poolVars, shutVars, identVars>>

\* cleanup: the page (and its context) is closed and forgotten
SmClosePage(p) ==
  /\ proc[p].pc = "cl_page"
  /\ page' = Null
  /\ proc' = [proc EXCEPT ![p].pc = "cl_browser"]
  /\ UNCHANGED <<browser, live, coreVars, retryVars, secretVars, protVars, pagingVars, poolVars, shutVars, identVars>>

\* cleanup: the browser is closed and forgotten; cleanup() ends, and a
\* launchBrowser() that called it goes on to launch
SmCloseBrowser(p) ==
  /\ proc[p].pc = "cl_browser"
  /\ live' = live \ {browser}
  /\ browser' = Null
  /\ proc' = [proc EXCEPT ![p] =
       IF @.op = "cleanup" THEN Finished(@, "ok", page) ELSE [@ EXCEPT !.pc = "launch"]]
  /\ UNCHANGED <<page, coreVars, retryVars, secretVars, protVars, pagingVars, poolVars, shutVars, identVars>>

\* launchBrowser: this.browser = await chromium.launch(...)
SmLaunch(p, ok) ==
  /\ proc[p].pc = "launch"
  /\ IF ok
       THEN \E b \in Browsers \ live :
              /\ \A c \in Browsers \ live : b <= c
              /\ browser' = b
              /\ live' = live \cup {b}
              /\ proc' = [proc EXCEPT ![p].pc = "newpage"]
       ELSE /\ proc' = [proc EXCEPT ![p] = LaunchThrows(@, page)]
            /\ UNCHANGED <<browser, live>>
  /\ UNCHANGED <<page, coreVars, retryVars, secretVars, protVars, pagingVars, poolVars, shutVars, identVars>>

\* launchBrowser: this.context = await this.browser.newContext(...), then
\* this.page = await this.context.newPage(); it throws when this.browser is gone
SmNewPage(p, ok) ==
  /\ proc[p].pc = "newpage"
  /\ IF ok /\ browser # Null
       THEN /\ page' = browser
            /\ proc' = [proc EXCEPT ![p].pc = IF proc[p].phase = "validate" THEN "nav" ELSE "steps"]
       ELSE /\ proc' = [proc EXCEPT ![p] = LaunchThrows(@, page)]
            /\ UNCHANGED page
  /\ UNCHANGED <<browser, live, coreVars, retryVars, secretVars, protVars, pagingVars, poolVars, shutVars, identVars>>

\* validateSession: the protected page is visited; a redirect to login, a 401, an
\* exception or a missing page means false; initialize() then returns or logs in
SmNavigate(p, valid) ==
  LET isValid == valid /\ page # Null
  IN /\ proc[p].pc = "nav"
     /\ proc' = [proc EXCEPT ![p] =
          IF usesExisting(TRUE, isValid)
            THEN Finished([@ EXCEPT !.validated = IF isValid THEN "true" ELSE "false"],
                          "ok", page)
            ELSE [@ EXCEPT !.validated = "false", !.pc = "login"]]
     /\ UNCHANGED <<browser, page, live, coreVars, retryVars, secretVars, protVars, pagingVars, poolVars, shutVars, identVars>>

\* initialize: performFullLogin() begins with launchBrowser()
SmBeginLogin(p) ==
  /\ proc[p].pc = "login"
  /\ proc' = [proc EXCEPT ![p].logins = @ + 1, ![p].phase = "login", ![p].pc = "lb"]
  /\ UNCHANGED <<browser, page, live, coreVars, retryVars, secretVars, protVars, pagingVars, poolVars, shutVars, identVars>>

\* performFullLogin: login page, PIN, CAPTCHA, OTP and the capture of the session;
\* any of them failing, or no page, ends it with the error
SmLoginSteps(p, ok) ==
  /\ proc[p].pc = "steps"
  /\ proc' = [proc EXCEPT ![p] =
       IF ok /\ page # Null THEN [@ EXCEPT !.pc = "savelogin"]
       ELSE Finished([@ EXCEPT !.loginFailed = TRUE], fullLoginResult(FALSE, FALSE), page)]
  /\ UNCHANGED <<browser, page, live, coreVars, retryVars, secretVars, protVars, pagingVars, poolVars, shutVars, identVars>>

\* performFullLogin: saveSession(sessionData)
SmSaveLogin(p, ok) ==
  /\ proc[p].pc = "savelogin"
  /\ IF ok
       THEN /\ envelope' = SavedEnvelope
            /\ session' = SavedSession
       ELSE UNCHANGED <<envelope, session>>
  /\ proc' = [proc EXCEPT ![p] =
       Finished([@ EXCEPT !.loginFailed = ~ok, !.saved = IF ok THEN "login" ELSE @],
                fullLoginResult(TRUE, ok), page)]
  /\ UNCHANGED <<browser, page, live, cbVars, claimVars, now, graphqlClient, rejected,
                 cycle, seen, newJobsQ, pushed, notifications, fetched, overlapped,
                 retryVars, dataKeyCache, lastFetch, reader, protVars, pagingVars, poolVars, shutVars, identVars>>

SmNext ==
  \/ \E p \in Procs, op \in Ops : SmCall(p, op)
  \/ \E p \in Procs, kmsOk \in BOOLEAN : SmLoad(p, kmsOk)
  \/ \E p \in Procs, ok \in BOOLEAN : SmRefresh(p, ok)
  \/ \E p \in Procs, ok \in BOOLEAN : SmSaveRefreshed(p, ok)
  \/ \E p \in Procs : SmLaunchEnter(p)
  \/ \E p \in Procs : SmClosePage(p)
  \/ \E p \in Procs : SmCloseBrowser(p)
  \/ \E p \in Procs, ok \in BOOLEAN : SmLaunch(p, ok)
  \/ \E p \in Procs, ok \in BOOLEAN : SmNewPage(p, ok)
  \/ \E p \in Procs, valid \in BOOLEAN : SmNavigate(p, valid)
  \/ \E p \in Procs : SmBeginLogin(p)
  \/ \E p \in Procs, ok \in BOOLEAN : SmLoginSteps(p, ok)
  \/ \E p \in Procs, ok \in BOOLEAN : SmSaveLogin(p, ok)
  \/ SessionExpires
  \/ \E e \in Envelopes : SetEnvelope(e)

\* the calls that run initialize(): initialize() itself, and getAuthenticatedPage()
\* when it found no page
Initializes(p) ==
  /\ proc[p].op \in {"initialize", "getAuthenticatedPage"}
  /\ proc[p].loaded # "none"

\* the caller is inside a token refresh or a full login
InAuthFlow(p) ==
  \/ proc[p].pc \in {"refresh", "save"}
  \/ proc[p].phase = "login" /\ proc[p].pc # "done"

\* C13: initialize() performs a full login if and only if loadSession() gave no
\* session or validateSession() returned false; a loaded session that validates
\* is used with no full login
C13_FullLoginIffNoValidSession ==
  \A p \in Procs :
    Initializes(p) =>
      /\ proc[p].logins > 0
           => (proc[p].loaded = "null" \/ proc[p].validated = "false")
      /\ (proc[p].pc = "done" /\ (proc[p].loaded = "null" \/ proc[p].validated = "false"))
           => proc[p].logins > 0
      /\ (proc[p].loaded = "session" /\ proc[p].validated = "true")
           => (proc[p].logins = 0 /\ proc[p].pc = "done" /\ proc[p].result = "ok")

\* an initialize() that ended after one full login because validation failed, while
\* another one ended on a validated session with no login
C13_Witness ==
  /\ \E p \in Procs :
       /\ proc[p].op = "initialize" /\ proc[p].pc = "done"
       /\ proc[p].validated = "false" /\ proc[p].logins = 1
  /\ \E p \in Procs :
       /\ proc[p].op = "initialize" /\ proc[p].pc = "done"
       /\ proc[p].validated = "true" /\ proc[p].logins = 0

\* C14: a call whose token refresh failed does not end without a full
\* authentication having followed the failed refresh
C14_RefreshFailureLeadsToFullLogin ==
  \A p \in Procs :
    (proc[p].refreshed = "failed" /\ proc[p].pc = "done") => proc[p].logins > 0

\* C15: when a step of the full login fails, the call rejects, the login has
\* persisted no session record, and no second full login is attempted in the call
C15_FailedLoginRejects ==
  \A p \in Procs :
    /\ proc[p].logins <= 1
    /\ proc[p].loginFailed
         => (proc[p].pc = "done" /\ proc[p].result = "error" /\ proc[p].saved # "login")

\* an initialize() that rejected after its one full login failed
C15_Witness ==
  \E p \in Procs :
    /\ proc[p].op = "initialize" /\ proc[p].pc = "done"
    /\ proc[p].loginFailed /\ proc[p].logins = 1 /\ proc[p].result = "error"

\* C16: at most one browser is open at any moment, and an open browser is the one
\* this.browser refers to
C16_AtMostOneLiveBrowser ==
  /\ Cardinality(live) <= 1
  /\ \A b \in live : browser = b

\* C17: no two callers of getAuthenticatedPage() and getSessionTokens() are inside
\* an authentication flow (token refresh or full login) at the same time
C17_OneAuthFlowAtATime ==
  Cardinality({p \in Procs :
                 /\ proc[p].op \in {"getAuthenticatedPage", "getSessionTokens"}
                 /\ InAuthFlow(p)}) <= 1

\* C25: poll() returns the number of candidate identifiers that are not in the
\* seen set, and once it has enqueued them the seen set is the old one plus all
\* candidate identifiers
C25_PollCountsNewIdentifiers ==
  [][\A c \in Cycles :
       /\ (cycle[c].pc = "filter" /\ cycle'[c].pc = "enqueue")
            => Len(cycle'[c].newJobs) = Cardinality(IdsOf(cycle[c].jobs) \ seen)
       /\ (cycle[c].pc = "filter" /\ cycle'[c].pc = "idle")
            => IdsOf(cycle[c].jobs) \subseteq seen
       /\ (cycle[c].pc = "enqueue" /\ cycle'[c].pc = "drain")
            => seen' = seen \cup IdsOf(cycle[c].jobs)
    ]_vars

(***************************************************************************)
(* The call sites that reach an external dependency: the circuit breaker   *)
(* and the retry() each of them runs inside                                *)
(***************************************************************************)
Sites == {"fetchJobsPage", "refreshToken", "solveCaptcha", "decryptDataKey", "generateDataKey"}

\* the @withCircuitBreaker decorator of the site's method, "none" where it has none
BreakerOf(site) ==
  CASE site = "fetchJobsPage" -> "amazon-jobs-api"
    [] site = "solveCaptcha" -> "captcha-service"
    [] OTHER -> "none"

\* the context of the retryNetworkRequest() the site calls, "none" where it calls
\* the dependency directly
RetryOf(site) ==
  CASE site = "fetchJobsPage" -> "fetch-jobs-page"
    [] site = "refreshToken" -> "token-refresh"
    [] OTHER -> "none"

\* a fetchJobsPage whose retry() is wrapped around the breaker
reportsToBreaker_EveryAttempt(final) == TRUE

\* the decorator wraps the whole method, retry() included: the breaker sees the
\* outcome of the method, not of its invocations of the dependency
reportsToBreaker(final) == final

IdleOp ==
  [site |-> "none", pc |-> "idle", made |-> 0, started |-> 0, before |-> 0,
   result |-> "none"]

ProtInit == extOp = IdleOp /\ sent = {}

Guarded(site) == BreakerOf(site) = cbName

\* the method of a site is called: execute() of its breaker rejects at once while
\* OPEN before the reset time, and otherwise the method body starts
ProtCall(site) ==
  /\ extOp.pc \in {"idle", "done"}
  /\ BreakerOf(site) \in {"none", cbName}
  /\ getTotalRequests(cb) < MaxCalls
  /\ IF Guarded(site) /\ cb.state = OPEN /\ ~shouldAttemptReset(cb, now)
       THEN /\ extOp' = [IdleOp EXCEPT !.site = site, !.pc = "done", !.before = cb.failureCount,
                                    !.result = "circuit_open"]
            /\ UNCHANGED cb
       ELSE /\ extOp' = [IdleOp EXCEPT !.site = site, !.pc = "running", !.started = now,
                                    !.before = cb.failureCount]
            /\ cb' = IF Guarded(site) /\ cb.state = OPEN THEN halfOpen(cb) ELSE cb
  /\ UNCHANGED <<cbName, call, requests, now, sent, claimVars, discVars, retryVars,
                 secretVars, smVars, pagingVars, poolVars, shutVars, identVars>>

\* one request goes to the dependency and its outcome comes back; inside retry()
\* a failure that is not permanent leads to another invocation while attempts are
\* left; the method's outcome goes to the breaker that is still awaiting it
ProtAttempt(res) ==
  LET site == extOp.site
      made == extOp.made + 1
      err == IF RetryOf(site) = "none" THEN res ELSE Thrown(RetryOf(site), res)
      final == \/ res.ok
               \/ RetryOf(site) = "none"
               \/ shouldAbort(err)
               \/ made >= maxAttempts(RetriesOf(RetryOf(site)))
      awaited == Guarded(site) /\ extOp.pc = "running"
  IN /\ extOp.pc \in {"running", "timed_out"}
     /\ awaited => now < extOp.started + Options(cbName).timeout
     /\ sent' = sent \cup {[site |-> site, breaker |-> BreakerOf(site) # "none",
                            retry |-> RetryOf(site) # "none"]}
     /\ extOp' = [extOp EXCEPT
                 !.made = made,
                 !.pc = IF final THEN "done" ELSE @,
                 !.result = IF ~final \/ extOp.pc = "timed_out" THEN @
                            ELSE IF res.ok THEN "resolved" ELSE "rejected"]
     /\ cb' = IF awaited /\ reportsToBreaker(final)
                THEN IF res.ok THEN onSuccess(cb) ELSE onFailure(cb, Options(cbName), now)
                ELSE cb
     /\ UNCHANGED <<cbName, call, requests, now, claimVars, discVars, retryVars,
                    secretVars, smVars, pagingVars, poolVars, shutVars, identVars>>

\* the breaker's timeout promise wins the race: execute() rejects and counts one
\* failure, while the method goes on unawaited
ProtTimeout ==
  /\ extOp.pc = "running"
  /\ Guarded(extOp.site)
  /\ now >= extOp.started + Options(cbName).timeout
  /\ cb' = onFailure(cb, Options(cbName), now)
  /\ extOp' = [extOp EXCEPT !.pc = "timed_out", !.result = "timed_out"]
  /\ UNCHANGED <<cbName, call, requests, now, sent, claimVars, discVars, retryVars,
                 secretVars, smVars, pagingVars, poolVars, shutVars, identVars>>

\* time passes; a timeout timer that is due fires before the clock moves on
ProtTick ==
  /\ now + TickStep <= MaxTime
  /\ (extOp.pc = "running" /\ Guarded(extOp.site)) => now < extOp.started + Options(cbName).timeout
  /\ now' = now + TickStep
  /\ UNCHANGED <<cbVars, claimVars, discVars, supportVars>>

ProtNext ==
  \/ \E site \in Sites : ProtCall(site)
  \/ \E res \in Results : ProtAttempt(res)
  \/ ProtTimeout
  \/ ProtTick

C23_OneFailurePerOperation ==
  Guarded(extOp.site) =>
    /\ extOp.pc = "running" => cb.failureCount = extOp.before
    /\ extOp.result \in {"rejected", "timed_out"} => cb.failureCount = extOp.before + 1
    /\ extOp.result = "circuit_open" => cb.failureCount = extOp.before

\* a catalog fetch that used up all its invocations on transient failures and
\* left a closed breaker with one failure
C23_Witness ==
  /\ extOp.site = "fetchJobsPage"
  /\ extOp.pc = "done"
  /\ extOp.result = "rejected"
  /\ extOp.made = fetchRetries + 1
  /\ cb.failureCount = 1
  /\ cb.state = CLOSED

(***************************************************************************)
(* fetchAllJobs: the paging loop, against a catalog of n jobs numbered in  *)
(* order; PageLimit stands for its limit of 100                            *)
(***************************************************************************)
NoOffset == -1

IdlePaging ==
  [pc |-> "idle", catalog |-> 0, offset |-> 0, allJobs |-> <<>>, pages |-> <<>>,
   error |-> "none", schemaDriftErrors |-> 0]

\* what a fetchJobsPage() rejects with: a response whose errors carry
\* GRAPHQL_VALIDATION_FAILED, a 401, or anything else
FetchErrors == {"schema", "unauthorized", "other"}

RECURSIVE Concat(_)
Concat(ps) == IF ps = <<>> THEN <<>> ELSE ps[1].jobs \o Concat(Tail(ps))

\* a loop that goes on as long as the catalog names a next offset
hasMore_UntilNoOffset(jobs, nextOffset) == nextOffset # NoOffset

\* fetchAllJobs: hasMore after a page: an empty page, a null nextOffset or fewer
\* jobs than the limit end the loop
hasMore(jobs, nextOffset) ==
  ~(Len(jobs) = 0 \/ nextOffset = NoOffset \/ Len(jobs) < PageLimit)

PagingInit == paging = IdlePaging

\* fetchAllJobs() is called; the catalog holds n jobs
PagingStart(n) ==
  /\ paging.pc \in {"idle", "done", "failed"}
  /\ paging' = [IdlePaging EXCEPT !.pc = "fetching", !.catalog = n]
  /\ UNCHANGED <<coreVars, retryVars, secretVars, smVars, protVars, poolVars, shutVars, identVars>>

\* one turn of the loop: fetchJobsPage(offset, limit) answers with k jobs from the
\* offset on and a nextOffset, which is null or an offset past those jobs
PagingFetch(k, nextOffset) ==
  LET jobs == [i \in 1..k |-> paging.offset + i]
      more == hasMore(jobs, nextOffset)
  IN /\ paging.pc = "fetching"
     /\ k <= PageLimit
     /\ paging.offset + k <= paging.catalog
     /\ nextOffset # NoOffset => (nextOffset >= paging.offset + k /\ nextOffset <= paging.catalog)
     /\ paging' = [paging EXCEPT
                     !.pages = Append(@, [offset |-> paging.offset, jobs |-> jobs,
                                          nextOffset |-> nextOffset]),
                     !.allJobs = @ \o jobs,
                     !.offset = IF more THEN nextOffset ELSE @,
                     !.pc = IF more THEN "fetching" ELSE "done"]
     /\ UNCHANGED <<coreVars, retryVars, secretVars, smVars, protVars, poolVars, shutVars, identVars>>

\* fetchJobsPage() rejects: fetchAllJobs() has no catch, and poll() counts the
\* error, counts schema drift when the response says so, and throws it on
PagingFails(kind) ==
  /\ paging.pc = "fetching"
  /\ paging' = [paging EXCEPT
                  !.pc = "failed",
                  !.error = kind,
                  !.schemaDriftErrors = IF kind = "schema" THEN 1 ELSE 0]
  /\ UNCHANGED <<coreVars, retryVars, secretVars, smVars, protVars, poolVars, shutVars, identVars>>

PagingNext ==
  \/ \E n \in 0..MaxCatalog : PagingStart(n)
  \/ \E kind \in FetchErrors : PagingFails(kind)
  \/ \E k \in 0..PageLimit, nextOffset \in {NoOffset} \cup (0..MaxCatalog) :
       PagingFetch(k, nextOffset)

\* C24: the first page is asked at offset 0 and each further one at the nextOffset
\* of the page before; the loop has ended exactly when the latest page is short or
\* has no nextOffset; allJobs is the pages' jobs in order; and a catalog of n jobs
\* is read in at most n / limit + 1 fetches
C24_PagingLaw ==
  LET ps == paging.pages
      n == Len(ps)
      Ends(pg) == Len(pg.jobs) < PageLimit \/ pg.nextOffset = NoOffset
  IN /\ \A k \in 1..n : ps[k].offset = IF k = 1 THEN 0 ELSE ps[k - 1].nextOffset
     /\ \A k \in 1..(n - 1) : ~Ends(ps[k])
     /\ n > 0 => (paging.pc = "done" <=> Ends(ps[n]))
     /\ paging.allJobs = Concat(ps)
     /\ n <= paging.catalog \div PageLimit + 1

\* pages of limit, limit and fewer jobs: three fetches, all jobs of the catalog in
\* order
C24_Witness ==
  /\ paging.pc = "done"
  /\ Len(paging.pages) = 3
  /\ Len(paging.pages[1].jobs) = PageLimit
  /\ Len(paging.pages[2].jobs) = PageLimit
  /\ Len(paging.pages[3].jobs) = 1
  /\ paging.allJobs = [i \in 1..(2 * PageLimit + 1) |-> i]

(***************************************************************************)
(* JobApplier.start: new Worker(..., { concurrency }) whose processor runs *)
(* processJob() through pLimit(concurrency)                                *)
(***************************************************************************)
Queued == 1..MaxQueued

\* a configuration that allows one worker more
workerConcurrency_OneMore == Concurrency + 1

\* config.worker.concurrency
workerConcurrency == Concurrency

Handled == {j \in Queued : pool[j] \in {"pending", "running"}}

Running == {j \in Queued : pool[j] = "running"}

PoolInit == pool = [j \in Queued |-> "none"]

\* applicationQueue.add('apply', ...)
PoolAdd(j) ==
  /\ pool[j] = "none"
  /\ pool' = [pool EXCEPT ![j] = "waiting"]
  /\ UNCHANGED <<coreVars, retryVars, secretVars, smVars, protVars, pagingVars, shutVars, identVars>>

\* the worker, with fewer than `concurrency` jobs in its processor, takes a waiting
\* job and calls the processor; the limiter runs processJob() at once when fewer
\* than `concurrency` of its functions are running and queues it otherwise
PoolFetch(j) ==
  /\ pool[j] = "waiting"
  /\ Cardinality(Handled) < workerConcurrency
  /\ pool' = [pool EXCEPT ![j] = IF Cardinality(Running) < workerConcurrency
                                   THEN "running" ELSE "pending"]
  /\ UNCHANGED <<coreVars, retryVars, secretVars, smVars, protVars, pagingVars, shutVars, identVars>>

\* a processJob() ends, however long it took; the limiter then starts one of the
\* functions it had queued
PoolEnd(j, next) ==
  /\ pool[j] = "running"
  /\ IF \E q \in Queued : pool[q] = "pending"
       THEN /\ pool[next] = "pending"
            /\ pool' = [pool EXCEPT ![j] = "done", ![next] = "running"]
       ELSE /\ next = j
            /\ pool' = [pool EXCEPT ![j] = "done"]
  /\ UNCHANGED <<coreVars, retryVars, secretVars, smVars, protVars, pagingVars, shutVars, identVars>>

PoolNext ==
  \/ \E j \in Queued : PoolAdd(j)
  \/ \E j \in Queued : PoolFetch(j)
  \/ \E j, next \in Queued : PoolEnd(j, next)

\* C28: no more than config.worker.concurrency processJob() bodies run at once
C28_ConcurrencyBounded ==
  Cardinality(Running) <= Concurrency

\* the limit is reached while a further job is waiting in the queue
C28_Witness ==
  /\ Cardinality(Running) = Concurrency
  /\ \E j \in Queued : pool[j] = "waiting"
  /\ \E j \in Queued : pool[j] = "done"

\* C26: a schema mismatch met after at least one page was obtained is counted as
\* schema drift and does not abort fetchAllJobs(): the jobs already fetched are
\* handed on to be filtered and enqueued
C26_SchemaMismatchKeepsPartialData ==
  (paging.error = "schema" /\ paging.pages # <<>>)
    => (paging.schemaDriftErrors = 1 /\ paging.pc # "failed")

(***************************************************************************)
(* Orchestrator: setupGracefulShutdown beside the polling triggers         *)
(***************************************************************************)
Workers == {"jobApplier", "notifier"}

Triggers == {"start", "cron", "http"}

NoPoll == [by |-> "none", pc |-> "idle"]

Polling == {c \in Cycles : orch.polls[c].pc # "idle"}

ShutInit ==
  orch = [pc |-> "running", isShuttingDown |-> FALSE, cronJob |-> "scheduled",
          server |-> "listening", workers |-> [w \in Workers |-> "running"],
          inHand |-> [w \in Workers |-> 0], polls |-> [c \in Cycles |-> NoPoll],
          connections |-> "open", initialPoll |-> "due", exit |-> "none"]

\* start() runs the initial poll as soon as the cron job is scheduled and the
\* server listens; after that the cron callback, or POST /admin/trigger-poll on a
\* listening server, calls runPollingCycle(); none looks at isShuttingDown
PollTriggered(c, by) ==
  /\ orch.pc # "exited"
  /\ orch.polls[c] = NoPoll
  /\ (by = "start") = (orch.initialPoll = "due")
  /\ by = "cron" => orch.cronJob = "scheduled"
  /\ by = "http" => orch.server = "listening"
  /\ orch' = [orch EXCEPT !.polls[c] = [by |-> by, pc |-> "poll"],
                          !.initialPoll = "called"]
  /\ UNCHANGED <<coreVars, retryVars, secretVars, smVars, protVars, pagingVars, poolVars, identVars>>

\* runPollingCycle() goes on: poll() is over and the drain loop begins, or the
\* cycle ends (its commands are rejected once the connections are closed)
PollStep(c) ==
  /\ orch.pc # "exited"
  /\ orch.polls[c].pc # "idle"
  /\ orch' = [orch EXCEPT !.polls[c] =
                IF @.pc = "poll" /\ orch.connections = "open"
                  THEN [@ EXCEPT !.pc = "drain"] ELSE NoPoll]
  /\ UNCHANGED <<coreVars, retryVars, secretVars, smVars, protVars, pagingVars, poolVars, identVars>>

\* runPollingCycle() rejects (poll() threw, or a queue add failed). The cron
\* callback logs it; the trigger-poll route logs it and answers 500; start()
\* rethrows it to main(), whose catch calls process.exit(1)
PollFails(c) ==
  /\ orch.pc # "exited"
  /\ orch.polls[c].pc # "idle"
  /\ orch' = IF orch.polls[c].by = "start"
              THEN [orch EXCEPT !.polls[c] = NoPoll, !.pc = "exited", !.exit = "1"]
              ELSE [orch EXCEPT !.polls[c] = NoPoll]
  /\ UNCHANGED <<coreVars, retryVars, secretVars, smVars, protVars, pagingVars, poolVars, identVars>>

\* a worker that is not closing takes a job from its queue
WorkerTakes(w) ==
  /\ orch.workers[w] = "running"
  /\ orch.inHand[w] = 0
  /\ orch' = [orch EXCEPT !.inHand[w] = 1]
  /\ UNCHANGED <<coreVars, retryVars, secretVars, smVars, protVars, pagingVars, poolVars, identVars>>

\* the job a worker has in hand ends
WorkerDone(w) ==
  /\ orch.pc # "exited"
  /\ orch.inHand[w] = 1
  /\ orch' = [orch EXCEPT !.inHand[w] = 0]
  /\ UNCHANGED <<coreVars, retryVars, secretVars, smVars, protVars, pagingVars, poolVars, identVars>>

\* SIGTERM or SIGINT: shutdown() up to its first await: the flag is set, the
\* server stops accepting, the cron job is stopped, and close() is called on both
\* workers
Shutdown ==
  /\ ~orch.isShuttingDown
  /\ orch' = [orch EXCEPT !.isShuttingDown = TRUE, !.server = "closed",
                          !.cronJob = "stopped",
                          !.workers = [w \in Workers |-> "closing"],
                          !.pc = "stopWorkers"]
  /\ UNCHANGED <<coreVars, retryVars, secretVars, smVars, protVars, pagingVars, poolVars, identVars>>

\* both worker.close() promises resolve, which they do when no job is in hand
WorkersStopped ==
  /\ orch.pc = "stopWorkers"
  /\ \A w \in Workers : orch.inHand[w] = 0
  /\ orch' = [orch EXCEPT !.workers = [w \in Workers |-> "closed"], !.pc = "cleanup"]
  /\ UNCHANGED <<coreVars, retryVars, secretVars, smVars, protVars, pagingVars, poolVars, identVars>>

\* sessionManager.cleanup() and jobPoller.cleanup() resolve
CleanedUp ==
  /\ orch.pc = "cleanup"
  /\ orch' = [orch EXCEPT !.pc = "closing"]
  /\ UNCHANGED <<coreVars, retryVars, secretVars, smVars, protVars, pagingVars, poolVars, identVars>>

\* redis.quit() and the two queue.close() resolve
ConnectionsClosed ==
  /\ orch.pc = "closing"
  /\ orch' = [orch EXCEPT !.connections = "closed", !.pc = "closed"]
  /\ UNCHANGED <<coreVars, retryVars, secretVars, smVars, protVars, pagingVars, poolVars, identVars>>

\* process.exit(0)
ProcessExit ==
  /\ orch.pc = "closed"
  /\ orch' = [orch EXCEPT !.pc = "exited", !.exit = "0"]
  /\ UNCHANGED <<coreVars, retryVars, secretVars, smVars, protVars, pagingVars, poolVars, identVars>>

ShutNext ==
  \/ \E c \in Cycles, by \in Triggers : PollTriggered(c, by)
  \/ \E c \in Cycles : PollStep(c)
  \/ \E c \in Cycles : PollFails(c)
  \/ \E w \in Workers : WorkerTakes(w)
  \/ \E w \in Workers : WorkerDone(w)
  \/ Shutdown
  \/ WorkersStopped
  \/ CleanedUp
  \/ ConnectionsClosed
  \/ ProcessExit

\* C30: shutdown stops the triggers, then the workers, then releases the session
\* and discovery resources, then closes the connections, so that when the
\* connections are closed no polling cycle is under way and no worker has a job
\* in hand.
C30_NothingUnderWayAtClose ==
  orch.connections = "closed"
    => (Polling = {} /\ \A w \in Workers : orch.inHand[w] = 0)

\* C31: no failure of a discovery cycle, be it the initial one, a scheduled one
\* or a manually triggered one, terminates the process.
C31_FailedCycleNeverExits ==
  orch.exit # "1"

(***************************************************************************)
(* SessionManager: the constructor's loadIdentityPool() beside initialize() *)
(***************************************************************************)
\* ./config/identity_pool.json: absent (-1), unparsable (-2), or holding a list
\* of so many identities
Absent == -1
Unparsable == -2
PoolFiles == {Unparsable, Absent} \cup 0..MaxIdentities

\* the pool file exists with identities, or the default identity applies
PoolAvailable == ident.poolFile = Absent \/ ident.poolFile >= 1

IdentInit ==
  /\ ident \in [poolFile : PoolFiles, loader : {"access"}, identityPool : {0},
                caller : {[p \in Procs |-> "new"]},
                currentIdentity : {0}]

\* loadIdentityPool: fs.access answers; without the file the pool is the default
\* identity
PoolAccess ==
  /\ ident.loader = "access"
  /\ ident' = IF ident.poolFile = Absent
                THEN [ident EXCEPT !.loader = "done", !.identityPool = 1]
                ELSE [ident EXCEPT !.loader = "read"]
  /\ UNCHANGED <<coreVars, retryVars, secretVars, smVars, protVars, pagingVars, poolVars, shutVars>>

\* loadIdentityPool: fs.readFile answers and the content is parsed; an error is
\* logged and the pool stays empty
PoolRead ==
  /\ ident.loader = "read"
  /\ ident' = IF ident.poolFile = Unparsable
                THEN [ident EXCEPT !.loader = "failed"]
                ELSE [ident EXCEPT !.loader = "done", !.identityPool = ident.poolFile]
  /\ UNCHANGED <<coreVars, retryVars, secretVars, smVars, protVars, pagingVars, poolVars, shutVars>>

\* initialize() is called: loadSession() is awaited
IdentInitialize(p) ==
  /\ ident.caller[p] = "new"
  /\ ident' = [ident EXCEPT !.caller[p] = "loadSession"]
  /\ UNCHANGED <<coreVars, retryVars, secretVars, smVars, protVars, pagingVars, poolVars, shutVars>>

\* initialize: loadSession() answers: with a session validateSession() is
\* awaited, with none performFullLogin() is called
IdentLoaded(p, existing) ==
  /\ ident.caller[p] = "loadSession"
  /\ ident' = [ident EXCEPT !.caller[p] = IF existing THEN "validate" ELSE "login"]
  /\ UNCHANGED <<coreVars, retryVars, secretVars, smVars, protVars, pagingVars, poolVars, shutVars>>

\* initialize: validateSession() answers
IdentValidated(p, valid) ==
  /\ ident.caller[p] = "validate"
  /\ ident' = [ident EXCEPT !.caller[p] = IF valid THEN "existing" ELSE "login"]
  /\ UNCHANGED <<coreVars, retryVars, secretVars, smVars, protVars, pagingVars, poolVars, shutVars>>

\* performFullLogin: rotateIdentity() throws on an empty pool and otherwise picks
\* an identity at random; launchBrowser() follows
rotateIdentity(p, index) ==
  /\ ident.caller[p] = "login"
  /\ IF ident.identityPool = 0
       THEN /\ index = 1
            /\ ident' = [ident EXCEPT !.caller[p] = "no_identities"]
       ELSE /\ index \in 1..ident.identityPool
            /\ ident' = [ident EXCEPT !.caller[p] = "launch", !.currentIdentity = index]
  /\ UNCHANGED <<coreVars, retryVars, secretVars, smVars, protVars, pagingVars, poolVars, shutVars>>

IdentNext ==
  \/ PoolAccess
  \/ PoolRead
  \/ \E p \in Procs : IdentInitialize(p)
  \/ \E p \in Procs, existing \in BOOLEAN : IdentLoaded(p, existing)
  \/ \E p \in Procs, valid \in BOOLEAN : IdentValidated(p, valid)
  \/ \E p \in Procs, index \in 1..MaxIdentities : rotateIdentity(p, index)

\* C40: when the pool file exists with identities or the default identity
\* applies, no initialize() fails with 'No identities available in pool'.
C40_PoolLoadedBeforeLogin ==
  PoolAvailable => \A p \in Procs : ident.caller[p] # "no_identities"

Init == CbInit /\ ClaimInit /\ DiscInit /\ RetryInit /\ SecretInit /\ SmInit /\ ProtInit /\ PagingInit
          /\ PoolInit /\ ShutInit /\ IdentInit /\ ident.poolFile = Absent

SpecBreaker == Init /\ [][CbNext]_vars

\* the claim worker runs beside the job API's breaker
InitClaim == Init /\ cbName = "amazon-jobs-api"

SpecClaim == InitClaim /\ [][ClaimNext]_vars

SpecDiscovery == InitClaim /\ [][DiscNext]_vars

SpecRetry == InitClaim /\ [][RetryNext]_vars

SpecSecret == InitClaim /\ [][SecretNext]_vars

SpecSession == InitClaim /\ [][SmNext]_vars

InitProtect == Init /\ cbName \in {"amazon-jobs-api", "captcha-service"}

SpecProtect == InitProtect /\ [][ProtNext]_vars

SpecPaging == InitClaim /\ [][PagingNext]_vars

SpecPool == InitClaim /\ [][PoolNext]_vars

SpecShutdown == InitClaim /\ [][ShutNext]_vars

\* a new SessionManager with any pool file
InitIdentity ==
  /\ CbInit /\ ClaimInit /\ DiscInit /\ RetryInit /\ SecretInit /\ SmInit /\ ProtInit
  /\ PagingInit /\ PoolInit /\ ShutInit /\ IdentInit
  /\ cbName = "amazon-jobs-api"

SpecIdentity == InitIdentity /\ [][IdentNext]_vars

====
